---- MODULE Spec2Model ----
(***************************************************************************)
(* The edge worker of webm-converter (src/worker/index.ts) in front of the *)
(* conversion containers.  A string is a sequence of tokens, so that       *)
(* startsWith, split and includes are computed as JavaScript computes them.*)
(* The worker's fetch handler is one action per branch; the timer of       *)
(* Promise.race, the settlement of container.fetch and the job engine      *)
(* inside a container are separate actions that interleave freely.         *)
(***************************************************************************)
EXTENDS Integers, Sequences, FiniteSets, Bags, TLC

\* ------------------------------------------------------------------ bounds
MaxReqs == 2
TotalDuration == 1

\* values crypto.randomUUID() can return (each is used at most once)
UUIDs == {"u1", "u2"}

\* ----------------------------------------------------------------- strings
StartsWith(s, pre) ==
  /\ Len(s) >= Len(pre)
  /\ SubSeq(s, 1, Len(pre)) = pre

\* String.prototype.indexOf, 1-based, 0 when there is no occurrence
IndexOf(s, sep) ==
  LET hits == {i \in 1..Len(s) : /\ i + Len(sep) - 1 <= Len(s)
                                 /\ SubSeq(s, i, i + Len(sep) - 1) = sep}
  IN IF hits = {} THEN 0 ELSE CHOOSE i \in hits : \A k \in hits : i <= k

\* s.split(sep)[1]: the text between the first and the second occurrence of
\* sep (or the end of s); only used where s is known to contain sep
SplitSecond(s, sep) ==
  LET i    == IndexOf(s, sep)
      rest == SubSeq(s, i + Len(sep), Len(s))
      k    == IndexOf(rest, sep)
  IN IF k = 0 THEN rest ELSE SubSeq(rest, 1, k - 1)

\* String.prototype.includes for one word
Includes(s, word) == \E i \in 1..Len(s) : s[i] = word

Min(a, b) == IF a <= b THEN a ELSE b

\* ------------------------------------------------------------------- paths
HealthPath     == <<"/", "health">>
UploadPath     == <<"/", "upload">>
StatusPrefix   == <<"/", "status", "/">>
DownloadPrefix == <<"/", "download", "/">>

Methods == {"GET", "POST"}

\* request paths a client sends: the documented ones for every id and the
\* malformed ones around them
Paths ==
  {HealthPath, UploadPath, <<"/">>, StatusPrefix,
   <<"/", "status", "/", "u1", "/", "status", "/", "u2">>}
  \cup {StatusPrefix \o <<u>> : u \in UUIDs}
  \cup {DownloadPrefix \o <<u>> : u \in UUIDs}

\* mutant of Route: /health is matched for GET only, like the other routes
RouteHealthGetOnly(method, path) ==
  IF path = HealthPath /\ method = "GET" THEN "health"
  ELSE IF path = UploadPath /\ method = "POST" THEN "upload"
  ELSE IF StartsWith(path, StatusPrefix) /\ method = "GET" THEN "status"
  ELSE IF StartsWith(path, DownloadPrefix) /\ method = "GET" THEN "download"
  ELSE "notfound"

\* mutant of Route: the method is not tested
RouteAnyMethod(method, path) ==
  IF path = HealthPath THEN "health"
  ELSE IF path = UploadPath THEN "upload"
  ELSE IF StartsWith(path, StatusPrefix) THEN "status"
  ELSE IF StartsWith(path, DownloadPrefix) THEN "download"
  ELSE "notfound"

\* the branch of fetch that handles a request, in the order of its tests
Route(method, path) ==
  IF path = HealthPath THEN "health"
  ELSE IF path = UploadPath /\ method = "POST" THEN "upload"
  ELSE IF StartsWith(path, StatusPrefix) /\ method = "GET" THEN "status"
  ELSE IF StartsWith(path, DownloadPrefix) /\ method = "GET" THEN "download"
  ELSE "notfound"

\* getContainer(env.WEBM_CONVERTER, name): the instance of idFromName(name)
getContainer(name) == [named |-> name]

\* every name the worker can key a container by
Names ==
  {<<u>> : u \in UUIDs}
  \cup {SplitSecond(p, StatusPrefix) : p \in {q \in Paths : StartsWith(q, StatusPrefix)}}
  \cup {SplitSecond(p, DownloadPrefix) : p \in {q \in Paths : StartsWith(q, DownloadPrefix)}}

NoName == <<"-">>
NoInstance == [named |-> NoName]

\* --------------------------------------------------------------- responses
\* a Response: status code, the headers the claims speak of, and the body
NoBody ==
  [error |-> "", details |-> <<>>, endpoints |-> <<>>, status |-> "",
   job_id |-> <<>>, progress |-> -1, detected_color |-> "", bytes |-> 0]

NoResponse == [status |-> 0, ctype |-> "", xcolor |-> "", body |-> NoBody]

JsonResponse(code, body) ==
  [status |-> code, ctype |-> "application/json", xcolor |-> "", body |-> body]

\* String(error) of an Error object
ErrorToString(msg) == <<"Error:">> \o msg

HealthResponse == JsonResponse(200, [NoBody EXCEPT !.status = "ok"])

NotFoundResponse ==
  JsonResponse(404,
    [NoBody EXCEPT !.error = "Not found",
                   !.endpoints = <<"POST /upload", "GET /status/{job_id}",
                                   "GET /download/{job_id}">>])

\* the catch block of the upload branch
UploadErrorResponse(msg) ==
  LET isTimeout == Includes(msg, "timeout")
  IN JsonResponse(IF isTimeout THEN 504 ELSE 500,
       [NoBody EXCEPT !.error = IF isTimeout THEN "Upload timeout - file too large"
                                             ELSE "Upload failed",
                      !.details = msg])

\* the catch block of the status branch
StatusErrorResponse(msg) ==
  JsonResponse(500, [NoBody EXCEPT !.error = "Failed to check status",
                                   !.details = ErrorToString(msg)])

\* the catch block of the download branch
DownloadErrorResponse(msg) ==
  JsonResponse(500, [NoBody EXCEPT !.error = "Failed to download video",
                                   !.details = ErrorToString(msg)])

\* the message of the Error the branch's setTimeout rejects with
TimeoutMessage(route) ==
  IF route = "upload" THEN <<"Upload", "timeout">>
  ELSE IF route = "status" THEN <<"Status", "check", "timeout">>
  ELSE <<"Download", "timeout">>

\* the response the branch's catch block builds for a rejection with msg
ErrorResponse(route, msg) ==
  IF route = "upload" THEN UploadErrorResponse(msg)
  ELSE IF route = "status" THEN StatusErrorResponse(msg)
  ELSE DownloadErrorResponse(msg)

\* messages container.fetch can reject with
RejectMessages == {<<"Network", "connection", "lost">>,
                   <<"Container", "start", "timeout">>}

\* ----------------------------------------------------------------- headers
\* a header list and a JavaScript object are sequences of [name, value]; a
\* value is a string, a sequence of tokens
MaxHeaders == 2

\* header names a client sends, in the letter cases it may use
ClientHeaderNames == {"X-Job-Id", "x-job-id", "X-JOB-ID", "Content-Type"}

HeaderValues == {<<"u2">>, <<"multipart/form-data">>}

\* the byte-lowercased header name
Lower(name) ==
  IF name \in {"X-Job-Id", "x-job-id", "X-JOB-ID"} THEN "x-job-id"
  ELSE IF name \in {"Content-Type", "content-type"} THEN "content-type"
  ELSE name

\* the lowercased names in the order a Headers object iterates them
SortedNames == <<"content-type", "x-job-id">>

RECURSIVE Combine(_, _)
\* Headers.prototype.get: the values of the entries whose name matches
\* without regard to case, joined with ", "; <<>> when there is none
Combine(list, lname) ==
  IF list = <<>> THEN <<>>
  ELSE LET rest == Combine(Tail(list), lname)
       IN IF Lower(Head(list).name) # lname THEN rest
          ELSE IF rest = <<>> THEN Head(list).value
          ELSE Head(list).value \o <<", ">> \o rest

HeadersGet(list, name) == Combine(list, Lower(name))

HeadersHas(list, name) == \E i \in 1..Len(list) : Lower(list[i].name) = Lower(name)

RECURSIVE EntriesFrom(_, _)
\* the iteration of a Headers object: one [lowercased name, combined value]
\* per name, sorted by name
EntriesFrom(list, names) ==
  IF names = <<>> THEN <<>>
  ELSE IF HeadersHas(list, Head(names))
  THEN <<[name |-> Head(names), value |-> Combine(list, Head(names))]>>
       \o EntriesFrom(list, Tail(names))
  ELSE EntriesFrom(list, Tail(names))

Entries(list) == EntriesFrom(list, SortedNames)

\* obj[key] = value of a JavaScript object: property names are compared
\* exactly, an existing property keeps its place, a new one goes last
SetKey(obj, key, value) ==
  IF \E i \in 1..Len(obj) : obj[i].name = key
  THEN [i \in 1..Len(obj) |-> IF obj[i].name = key
                              THEN [name |-> key, value |-> value]
                              ELSE obj[i]]
  ELSE Append(obj, [name |-> key, value |-> value])

RECURSIVE FromEntries(_)
\* Object.fromEntries: the entries assigned in order, the first one first
FromEntries(entries) ==
  IF entries = <<>> THEN <<>>
  ELSE LET n == Len(entries)
       IN SetKey(FromEntries(SubSeq(entries, 1, n - 1)),
                 entries[n].name, entries[n].value)

\* the headers of clonedRequest: { ...Object.fromEntries(request.headers),
\* 'X-Job-Id': jobId } given to the Request constructor, which appends one
\* entry per property of the object
ClonedHeaders(headers, jobId) ==
  SetKey(FromEntries(Entries(headers)), "X-Job-Id", jobId)

\* clonedRequest
ClonedRequest(request, jobId) ==
  [method |-> request.method,
   headers |-> ClonedHeaders(request.headers, jobId),
   body |-> request.body]

\* the header lists a client sends with an upload
RECURSIVE HeaderLists(_)
HeaderLists(n) ==
  IF n = 0 THEN {<<>>}
  ELSE LET shorter == HeaderLists(n - 1)
       IN shorter \cup {Append(l, [name |-> nm, value |-> v]) :
                          l \in shorter, nm \in ClientHeaderNames,
                          v \in HeaderValues}

Bodies == {"video", "empty"}

\* the upload requests a client sends
UploadRequests ==
  {[method |-> "POST", headers |-> h, body |-> b] :
     h \in HeaderLists(MaxHeaders), b \in Bodies}

\* ------------------------------------------------------------------- state
VARIABLES
  reqs,       \* the requests the worker has received (a bag of records)
  jobs,       \* the job registry of every container instance
  healthLog,  \* the health checks the worker has made, in order
  hc,         \* the call of getHealthyContainer, if one is running
  cr          \* an upload request and the clone the worker makes of it

vars == <<reqs, jobs, healthLog, hc, cr>>

\* a job record of the registry; "absent" is what get() reports as NotFound
NoJob == [status |-> "absent", progress |-> 0, processed |-> 0,
          detected_color |-> ""]

NewJob == [NoJob EXCEPT !.status = "processing"]

Terminal(job) == job.status \in {"complete", "failed"}

\* the registry slot of job id in the instance keyed by name
Slot(name, id) == <<name, id>>

Slots == Names \X Names

Reqs == BagToSet(reqs)

\* the bag with one copy of r replaced by r2
Replace(bag, r, r2) == (bag (-) SetToBag({r})) (+) SetToBag({r2})

\* the ids crypto.randomUUID() has returned so far
UsedUUIDs == {r.jobId : r \in {q \in Reqs : q.route = "upload"}}

\* the progress values the caller has received for job name so far
Observed(name) ==
  {r.resp.body.progress :
     r \in {q \in Reqs : /\ q.route = "status"
                         /\ q.jobId = name
                         /\ q.phase = "done"
                         /\ q.resp.status = 200}}

MaxOf(S) == IF S = {} THEN 0 ELSE CHOOSE x \in S : \A y \in S : y <= x

\* what a status call reports of a job record
Snapshot(job) == [status |-> job.status, progress |-> job.progress]

NoSnapshot == [status |-> "absent", progress |-> 0]

\* a request the worker answers itself, without a container
Answered(method, path, route, response) ==
  [method |-> method, path |-> path, route |-> route, jobId |-> NoName,
   inst |-> NoInstance, xJobId |-> NoName, phase |-> "done",
   cstate |-> "none", timedOut |-> FALSE, resp |-> response,
   cresp |-> NoResponse, floor |-> 0, atIssue |-> NoSnapshot]

\* a request forwarded to a container, the handler awaiting Promise.race
Forwarded(method, path, route, jobId, container, xJobId) ==
  [method |-> method, path |-> path, route |-> route, jobId |-> jobId,
   inst |-> container, xJobId |-> xJobId, phase |-> "racing",
   cstate |-> "pending", timedOut |-> FALSE, resp |-> NoResponse,
   cresp |-> NoResponse,
   floor |-> IF route = "status" THEN MaxOf(Observed(jobId)) ELSE 0,
   atIssue |-> IF route = "status" THEN Snapshot(jobs[Slot(jobId, jobId)])
               ELSE NoSnapshot]

\* no call of getHealthyContainer is running
NoCall == [pc |-> "idle", attempt |-> 0, maxRetries |-> 0,
           container |-> NoInstance, error |-> <<>>]

\* no upload request is being cloned
NoClone == [pc |-> "idle",
            request |-> [method |-> "", headers |-> <<>>, body |-> ""],
            jobId |-> NoName, container |-> NoInstance,
            cloned |-> [method |-> "", headers |-> <<>>, body |-> ""]]

Init ==
  /\ reqs = EmptyBag
  /\ jobs = [s \in Slots |-> NoJob]
  /\ healthLog = <<>>
  /\ hc = NoCall
  /\ cr = NoClone

\* ------------------------------------------------------- the fetch handler
\* url.pathname === '/health'
FetchHealth(method, path) ==
  /\ BagCardinality(reqs) < MaxReqs
  /\ Route(method, path) = "health"
  /\ reqs' = reqs (+) SetToBag({Answered(method, path, "health", HealthResponse)})
  /\ UNCHANGED <<jobs, healthLog, hc, cr>>

\* mutant of FetchUpload: the job id is not unique to the request
FetchUploadReuse(method, path, uuid) ==
  /\ BagCardinality(reqs) < MaxReqs
  /\ Route(method, path) = "upload"
  /\ uuid \in UUIDs
  /\ LET jobId == <<uuid>>
     IN reqs' = reqs (+) SetToBag({Forwarded(method, path, "upload", jobId,
                                             getContainer(jobId), jobId)})
  /\ UNCHANGED <<jobs, healthLog, hc, cr>>

\* POST /upload up to the await: a fresh job id, the container keyed by it,
\* the cloned request with X-Job-Id, container.fetch and the 25 s timer; the
\* client's request carries no headers here
FetchUpload(method, path, uuid) ==
  /\ BagCardinality(reqs) < MaxReqs
  /\ Route(method, path) = "upload"
  /\ uuid \in UUIDs \ {u[1] : u \in UsedUUIDs}
  /\ LET jobId == <<uuid>>
         headers == ClonedHeaders(<<>>, jobId)
     IN reqs' = reqs (+) SetToBag({Forwarded(method, path, "upload", jobId,
                                                getContainer(jobId),
                                                HeadersGet(headers, "X-Job-Id"))})
  /\ UNCHANGED <<jobs, healthLog, hc, cr>>

\* getRandom(env.WEBM_CONVERTER): one of the instances instance-0..2
getRandom == {[named |-> <<n>>] : n \in {"instance-0", "instance-1", "instance-2"}}

\* mutant of FetchStatus: the container is picked by getRandom, as
\* getHealthyContainer picks it, instead of by the job id
FetchStatusRandom(method, path) ==
  /\ BagCardinality(reqs) < MaxReqs
  /\ Route(method, path) = "status"
  /\ \E container \in getRandom :
       LET jobId == SplitSecond(path, StatusPrefix)
       IN reqs' = reqs (+) SetToBag({Forwarded(method, path, "status", jobId,
                                               container, NoName)})
  /\ UNCHANGED <<jobs, healthLog, hc, cr>>

\* GET /status/... up to the await
FetchStatus(method, path) ==
  /\ BagCardinality(reqs) < MaxReqs
  /\ Route(method, path) = "status"
  /\ LET jobId == SplitSecond(path, StatusPrefix)
     IN reqs' = reqs (+) SetToBag({Forwarded(method, path, "status", jobId,
                                                getContainer(jobId), NoName)})
  /\ UNCHANGED <<jobs, healthLog, hc, cr>>

\* GET /download/... up to the await
FetchDownload(method, path) ==
  /\ BagCardinality(reqs) < MaxReqs
  /\ Route(method, path) = "download"
  /\ LET jobId == SplitSecond(path, DownloadPrefix)
     IN reqs' = reqs (+) SetToBag({Forwarded(method, path, "download", jobId,
                                                getContainer(jobId), NoName)})
  /\ UNCHANGED <<jobs, healthLog, hc, cr>>

\* the fallback at the end of fetch
FetchNotFound(method, path) ==
  /\ BagCardinality(reqs) < MaxReqs
  /\ Route(method, path) = "notfound"
  /\ reqs' = reqs (+) SetToBag({Answered(method, path, "notfound", NotFoundResponse)})
  /\ UNCHANGED <<jobs, healthLog, hc, cr>>

\* mutant of TimerFires: the timer also aborts the forwarded request
TimerFiresAbort(r) ==
  /\ r \in Reqs
  /\ r.phase = "racing"
  /\ reqs' = Replace(reqs, r,
               [r EXCEPT !.phase = "done",
                         !.timedOut = TRUE,
                         !.cstate = "rejected",
                         !.resp = ErrorResponse(r.route, TimeoutMessage(r.route))])
  /\ UNCHANGED <<jobs, healthLog, hc, cr>>

\* the setTimeout of Promise.race fires first: the race rejects, the catch
\* block answers; nothing is sent to the container
TimerFires(r) ==
  /\ r \in Reqs
  /\ r.phase = "racing"
  /\ reqs' = Replace(reqs, r,
               [r EXCEPT !.phase = "done",
                         !.timedOut = TRUE,
                         !.resp = ErrorResponse(r.route, TimeoutMessage(r.route))])
  /\ UNCHANGED <<jobs, healthLog, hc, cr>>

\* mutant of Settle: the handler builds a new JSON response from the
\* container's status and body instead of returning the response itself
SettleRewrap(r, fulfilled, response, msg) ==
  [r EXCEPT !.cstate = IF fulfilled THEN "answered" ELSE "rejected",
            !.cresp = IF fulfilled /\ r.phase = "racing" THEN response
                      ELSE NoResponse,
            !.phase = "done",
            !.resp = IF r.phase = "racing"
                     THEN (IF fulfilled
                           THEN JsonResponse(response.status, response.body)
                           ELSE ErrorResponse(r.route, msg))
                     ELSE r.resp]

\* mutant of Settle: a settlement that arrives after the timer fired still
\* replaces the handler's answer
SettleLate(r, fulfilled, response, msg) ==
  [r EXCEPT !.cstate = IF fulfilled THEN "answered" ELSE "rejected",
            !.cresp = IF fulfilled THEN response ELSE NoResponse,
            !.phase = "done",
            !.resp = IF fulfilled THEN response
                     ELSE ErrorResponse(r.route, msg)]

\* what the handler does when container.fetch settles: if the race is still
\* open it returns the response (or the catch block's answer), otherwise the
\* race is over and the settlement is dropped; cresp is what the race
\* resolved with
Settle(r, fulfilled, response, msg) ==
  [r EXCEPT !.cstate = IF fulfilled THEN "answered" ELSE "rejected",
            !.cresp = IF fulfilled /\ r.phase = "racing" THEN response
                      ELSE NoResponse,
            !.phase = "done",
            !.resp = IF r.phase = "racing"
                     THEN (IF fulfilled THEN response
                           ELSE ErrorResponse(r.route, msg))
                     ELSE r.resp]

\* container.fetch rejects (the instance could not be reached or started)
ContainerFetchRejects(r, msg) ==
  /\ r \in Reqs
  /\ r.cstate = "pending"
  /\ reqs' = Replace(reqs, r, Settle(r, FALSE, NoResponse, msg))
  /\ UNCHANGED <<jobs, healthLog, hc, cr>>

\* ----------------------------------------------- the container's job engine
\* the {job_id} of the server's routes /status/{job_id} and
\* /download/{job_id}: one path segment; NoName when the route does not match
PathJobId(path, prefix) ==
  IF StartsWith(path, prefix) /\ Len(path) = Len(prefix) + 1
  THEN <<path[Len(path)]>>
  ELSE NoName

ContainerNotFound == JsonResponse(404, [NoBody EXCEPT !.error = "Job not found"])

ContainerNotReady == JsonResponse(409, [NoBody EXCEPT !.error = "Job not complete"])

UploadAccepted(id) ==
  JsonResponse(200, [NoBody EXCEPT !.job_id = id, !.status = "processing"])

StatusBody(job) ==
  JsonResponse(200, [NoBody EXCEPT !.status = job.status,
                                   !.progress = job.progress,
                                   !.detected_color = job.detected_color])

OutputFile(job) ==
  [status |-> 200, ctype |-> "video/webm", xcolor |-> job.detected_color,
   body |-> [NoBody EXCEPT !.bytes = 1]]

\* the job a request reaches in the instance it was forwarded to
Lookup(r, prefix) ==
  LET id == PathJobId(r.path, prefix)
  IN IF Slot(r.inst.named, id) \in Slots THEN jobs[Slot(r.inst.named, id)]
     ELSE NoJob

\* submit: the server creates the job under the id of X-Job-Id and
\* acknowledges without waiting for the encoder
ContainerUpload(r) ==
  /\ r \in Reqs
  /\ r.cstate = "pending"
  /\ r.route = "upload"
  /\ jobs' = [jobs EXCEPT ![Slot(r.inst.named, r.xJobId)] = NewJob]
  /\ reqs' = Replace(reqs, r, Settle(r, TRUE, UploadAccepted(r.xJobId), <<>>))
  /\ UNCHANGED <<healthLog, hc, cr>>

\* status: a snapshot of the record, or NotFound
ContainerStatus(r) ==
  /\ r \in Reqs
  /\ r.cstate = "pending"
  /\ r.route = "status"
  /\ LET job == Lookup(r, StatusPrefix)
     IN reqs' = Replace(reqs, r,
                  Settle(r, TRUE,
                         IF job.status = "absent" THEN ContainerNotFound
                         ELSE StatusBody(job), <<>>))
  /\ UNCHANGED <<jobs, healthLog, hc, cr>>

\* mutant of ContainerDownload: the output is served for any known job
ContainerDownloadEarly(r) ==
  /\ r \in Reqs
  /\ r.cstate = "pending"
  /\ r.route = "download"
  /\ LET job == Lookup(r, DownloadPrefix)
         key == Slot(r.inst.named, PathJobId(r.path, DownloadPrefix))
     IN /\ reqs' = Replace(reqs, r,
                     Settle(r, TRUE,
                            IF job.status = "absent" THEN ContainerNotFound
                            ELSE OutputFile(job), <<>>))
        /\ jobs' = IF job.status # "absent"
                   THEN [jobs EXCEPT ![key] = NoJob]
                   ELSE jobs
  /\ UNCHANGED <<healthLog, hc, cr>>

\* fetch_output: the output of a Complete job, then the record is removed;
\* NotReady before Complete, NotFound for an unknown id
ContainerDownload(r) ==
  /\ r \in Reqs
  /\ r.cstate = "pending"
  /\ r.route = "download"
  /\ LET job == Lookup(r, DownloadPrefix)
         key == Slot(r.inst.named, PathJobId(r.path, DownloadPrefix))
     IN /\ reqs' = Replace(reqs, r,
                     Settle(r, TRUE,
                            IF job.status = "absent" THEN ContainerNotFound
                            ELSE IF job.status = "complete" THEN OutputFile(job)
                            ELSE ContainerNotReady, <<>>))
        /\ jobs' = IF job.status = "complete"
                   THEN [jobs EXCEPT ![key] = NoJob]
                   ELSE jobs
  /\ UNCHANGED <<healthLog, hc, cr>>

\* progress = min(99, floor(100 * processed / total)) of an encoder status line
ProgressOf(processed) == Min(99, (100 * processed) \div TotalDuration)

\* mutant of EncoderProgress: a status line with an earlier duration is
\* taken too
EncoderProgressAny(s, d) ==
  /\ jobs[s].status = "processing"
  /\ d # jobs[s].processed
  /\ d <= TotalDuration
  /\ jobs' = [jobs EXCEPT ![s].processed = d, ![s].progress = ProgressOf(d)]
  /\ UNCHANGED <<reqs, healthLog, hc, cr>>

\* a status line of the encoder reports a later processed duration, at most
\* the probed total
EncoderProgress(s, d) ==
  /\ jobs[s].status = "processing"
  /\ d > jobs[s].processed
  /\ d <= TotalDuration
  /\ jobs' = [jobs EXCEPT ![s].processed = d, ![s].progress = ProgressOf(d)]
  /\ UNCHANGED <<reqs, healthLog, hc, cr>>

\* the encoder exits with code 0 and a non-empty output, the whole duration
\* processed
EncoderSucceeds(s) ==
  /\ jobs[s].status = "processing"
  /\ jobs' = [jobs EXCEPT ![s].status = "complete", ![s].progress = 100,
                          ![s].processed = TotalDuration]
  /\ UNCHANGED <<reqs, healthLog, hc, cr>>

\* mutant of EncoderFails: a failure is recorded whatever the job's status
EncoderFailsAnytime(s) ==
  /\ jobs[s].status \in {"processing", "complete"}
  /\ jobs' = [jobs EXCEPT ![s].status = "failed"]
  /\ UNCHANGED <<reqs, healthLog, hc, cr>>

\* the encoder fails (non-zero exit, missing output, undecodable input)
EncoderFails(s) ==
  /\ jobs[s].status = "processing"
  /\ jobs' = [jobs EXCEPT ![s].status = "failed"]
  /\ UNCHANGED <<reqs, healthLog, hc, cr>>

\* the colour sampler succeeds
SampleColor(s) ==
  /\ jobs[s].status = "processing"
  /\ jobs[s].detected_color = ""
  /\ jobs' = [jobs EXCEPT ![s].detected_color = "0x0BB600"]
  /\ UNCHANGED <<reqs, healthLog, hc, cr>>

\* the sweeper reclaims a finished job past its retention window (the
\* window outlasts an encode)
Sweep(s) ==
  /\ Terminal(jobs[s])
  /\ jobs' = [jobs EXCEPT ![s] = NoJob]
  /\ UNCHANGED <<reqs, healthLog, hc, cr>>

\* ---------------------------------------------------- getHealthyContainer
DefaultMaxRetries == 3

\* what one attempt can come to: the health response is ok, it is not ok,
\* getRandom or container.fetch throws, or the 2 s timer fires first
AttemptOutcomes == {"ok", "not-ok", "throws", "timeout"}

\* the message of the Error thrown after the loop
NoHealthyContainer == <<"No", "healthy", "container", "available">>

\* mutant of LoopTest: the loop runs while attempt <= maxRetries
LoopTestInclusive(call, attempt) ==
  IF attempt <= call.maxRetries
  THEN [call EXCEPT !.pc = "attempt", !.attempt = attempt]
  ELSE [call EXCEPT !.pc = "thrown", !.attempt = attempt,
                    !.error = NoHealthyContainer]

\* the loop test of the for statement, entered with the attempt number; the
\* throw statement follows the loop
LoopTest(call, attempt) ==
  IF attempt < call.maxRetries
  THEN [call EXCEPT !.pc = "attempt", !.attempt = attempt]
  ELSE [call EXCEPT !.pc = "thrown", !.attempt = attempt,
                    !.error = NoHealthyContainer]

\* getHealthyContainer(env, maxRetries) is called
HealthCheckCalled(maxRetries) ==
  /\ hc.pc = "idle"
  /\ hc' = LoopTest([NoCall EXCEPT !.maxRetries = maxRetries], 0)
  /\ UNCHANGED <<reqs, jobs, healthLog, cr>>

\* one pass through the try block: an ok response returns the container, a
\* response that is not ok falls through to the next attempt, an exception
\* goes to the catch block, which waits only if another attempt follows
HealthAttempt(container, outcome) ==
  /\ hc.pc = "attempt"
  /\ healthLog' = Append(healthLog, [attempt |-> hc.attempt,
                                     container |-> container,
                                     outcome |-> outcome,
                                     ok |-> outcome = "ok"])
  /\ hc' = IF outcome = "ok"
           THEN [hc EXCEPT !.pc = "returned", !.container = container]
           ELSE IF outcome = "not-ok"
           THEN LoopTest(hc, hc.attempt + 1)
           ELSE IF hc.attempt < hc.maxRetries - 1
           THEN [hc EXCEPT !.pc = "backoff"]
           ELSE LoopTest(hc, hc.attempt + 1)
  /\ UNCHANGED <<reqs, jobs, cr>>

\* the 1 s delay of the catch block is over
BackoffElapsed ==
  /\ hc.pc = "backoff"
  /\ hc' = LoopTest(hc, hc.attempt + 1)
  /\ UNCHANGED <<reqs, jobs, healthLog, cr>>

\* ------------------------------------------------------------ specification
\* fetch never calls getHealthyContainer, so the actions of that function
\* are no part of the worker's behaviour
Next ==
  \/ \E m \in Methods, p \in Paths : FetchHealth(m, p)
  \/ \E m \in Methods, p \in Paths, u \in UUIDs : FetchUpload(m, p, u)
  \/ \E m \in Methods, p \in Paths : FetchStatus(m, p)
  \/ \E m \in Methods, p \in Paths : FetchDownload(m, p)
  \/ \E m \in Methods, p \in Paths : FetchNotFound(m, p)
  \/ \E r \in Reqs : TimerFires(r)
  \/ \E r \in Reqs, msg \in RejectMessages : ContainerFetchRejects(r, msg)
  \/ \E r \in Reqs : ContainerUpload(r)
  \/ \E r \in Reqs : ContainerStatus(r)
  \/ \E r \in Reqs : ContainerDownload(r)
  \/ \E s \in Slots, d \in 0..TotalDuration : EncoderProgress(s, d)
  \/ \E s \in Slots : EncoderSucceeds(s)
  \/ \E s \in Slots : EncoderFails(s)
  \/ \E s \in Slots : SampleColor(s)
  \/ \E s \in Slots : Sweep(s)

Spec == Init /\ [][Next]_vars

\* the same with the scheduling the runtime gives: a setTimeout that was set
\* fires
SpecLive == Spec /\ WF_vars(\E r \in Reqs : TimerFires(r))

TypeOK ==
  /\ BagCardinality(reqs) <= MaxReqs
  /\ \A s \in Slots : jobs[s].progress \in 0..100
  /\ hc.pc \in {"idle", "attempt", "backoff", "returned", "thrown"}
  /\ cr.pc \in {"idle", "received", "forwarded"}

\* getHealthyContainer on its own, called with any retry count
MaxRetriesTried == 4

NextHealth ==
  \/ \E n \in 0..MaxRetriesTried : HealthCheckCalled(n)
  \/ \E c \in getRandom, o \in AttemptOutcomes : HealthAttempt(c, o)
  \/ BackoffElapsed

SpecHealth == Init /\ [][NextHealth]_vars

\* the same with the scheduling the runtime gives: getRandom resolves, the
\* race of an attempt settles since its 2 s timer fires at the latest, and
\* the 1 s timer of the backoff fires
SpecHealthLive ==
  /\ SpecHealth
  /\ WF_vars(\E c \in getRandom, o \in AttemptOutcomes : HealthAttempt(c, o))
  /\ WF_vars(BackoffElapsed)

\* the upload branch up to container.fetch, for any headers of the client
CloneUpload(uuid) ==
  /\ cr.pc = "received"
  /\ LET jobId == <<uuid>>
     IN cr' = [cr EXCEPT !.pc = "forwarded",
                         !.jobId = jobId,
                         !.container = getContainer(jobId),
                         !.cloned = ClonedRequest(cr.request, jobId)]
  /\ UNCHANGED <<reqs, jobs, healthLog, hc>>

InitClone ==
  /\ reqs = EmptyBag
  /\ jobs = [s \in Slots |-> NoJob]
  /\ healthLog = <<>>
  /\ hc = NoCall
  /\ \E request \in UploadRequests : cr = [NoClone EXCEPT !.pc = "received",
                                                         !.request = request]

NextClone == \E u \in UUIDs : CloneUpload(u)

SpecClone == InitClone /\ [][NextClone]_vars

\* ------------------------------------------------------------------ claims
\* the step replaced the request record r by r2
Became(r, r2) ==
  /\ r # r2
  /\ BagCardinality(reqs') = BagCardinality(reqs)
  /\ CopiesIn(r, reqs') < CopiesIn(r, reqs)
  /\ CopiesIn(r2, reqs') > CopiesIn(r2, reqs)

\* the path of the status or download request for job id
PathFor(route, id) ==
  IF route = "status" THEN StatusPrefix \o id ELSE DownloadPrefix \o id

\* C1: every status and download request for job id J is forwarded to the
\* container instance that received the upload the worker issued J to, and
\* that instance is the one keyed by J.
C1_Affinity ==
  \A u \in Reqs : \A r \in Reqs :
    (/\ u.route = "upload"
     /\ r.method = "GET"
     /\ r.path \in {PathFor("status", u.jobId), PathFor("download", u.jobId)})
    => /\ r.cstate # "none"
       /\ u.cstate # "none"
       /\ r.inst = u.inst
       /\ u.inst = [named |-> u.jobId]

\* C1 witness: an upload has been answered by its instance, and a status
\* request for the id it was issued has been answered by an instance too
C1_Witness ==
  \E u \in Reqs : \E r \in Reqs :
    /\ u.route = "upload" /\ u.cstate = "answered"
    /\ r.route = "status" /\ r.path = PathFor("status", u.jobId)
    /\ r.cstate = "answered"
    /\ r.resp.status = 200

\* C2: no request is forwarded to a container unless the worker has made a
\* successful health check before.
C2_HealthCheckBeforeForward ==
  \A r \in Reqs :
    r.cstate # "none" => \E k \in 1..Len(healthLog) : healthLog[k].ok

\* a timeout error response of the branch
IsTimeoutError(route, response) ==
  /\ response.status = IF route = "upload" THEN 504 ELSE 500
  /\ response.body.error =
       (IF route = "upload" THEN "Upload timeout - file too large"
        ELSE IF route = "status" THEN "Failed to check status"
        ELSE "Failed to download video")
  /\ Includes(response.body.details, "timeout")
  /\ response.body.bytes = 0

\* C3: when the worker's timer fires first the caller gets the branch's
\* timeout error, the forwarded request stays with the container, no job
\* changes, and a later request for the same id goes to the same instance.
C3_TimeoutLeavesJob ==
  /\ [](\A r \in Reqs :
          r.timedOut =>
            /\ r.phase = "done"
            /\ IsTimeoutError(r.route, r.resp)
            /\ \A q \in Reqs :
                 (/\ q.route \in {"status", "download"}
                  /\ q.path = PathFor(q.route, r.jobId)) => q.inst = r.inst)
  /\ [][\A r \in Reqs :
          ~r.timedOut =>
            \A r2 \in BagToSet(reqs') :
              (r2.timedOut /\ Became(r, r2))
              => /\ r.cstate = "pending"
                 /\ r2.cstate = "pending"
                 /\ jobs' = jobs]_vars

\* C3 witness: an upload timed out at the worker, the container created the
\* job all the same, and a status request for that id was answered with the
\* job's snapshot
C3_Witness ==
  \E u \in Reqs : \E r \in Reqs :
    /\ u.route = "upload" /\ u.timedOut /\ u.cstate = "answered"
    /\ r.route = "status" /\ r.path = PathFor("status", u.jobId)
    /\ r.atIssue.status = "processing"
    /\ ~r.timedOut
    /\ r.resp.status = 200
    /\ r.resp.body.status \in {"processing", "complete"}

\* the responses an upload of job id can be answered with
UploadOutcomes(id) ==
  {UploadAccepted(id), UploadErrorResponse(TimeoutMessage("upload"))}
  \cup {UploadErrorResponse(msg) : msg \in RejectMessages}

IsContainerResponse(route, id, response) ==
  IF route = "upload" THEN response = UploadAccepted(id)
  ELSE IF route = "status"
  THEN \/ response = ContainerNotFound
       \/ /\ response.status = 200
          /\ response.ctype = "application/json"
          /\ response.body.status \in {"processing", "complete", "failed"}
          /\ response.body.progress \in 0..100
          /\ response.body.bytes = 0
  ELSE \/ response \in {ContainerNotFound, ContainerNotReady}
       \/ /\ response.status = 200
          /\ response.ctype = "video/webm"
          /\ response.xcolor \in {"", "0x0BB600"}
          /\ response.body.bytes > 0

\* C6: when the container's response wins the race, the caller receives
\* exactly the response the container produced for the forwarded request:
\* status code, headers and body.
C6_PassThrough ==
  \A r \in Reqs :
    (r.cstate = "answered" /\ ~r.timedOut) =>
      /\ r.phase = "done"
      /\ r.resp = r.cresp
      /\ IsContainerResponse(r.route, r.jobId, r.resp)

\* C6 witness: a download was answered with the output and its
\* detected-colour header
C6_Witness ==
  \E r \in Reqs :
    /\ r.route = "download"
    /\ r.resp.status = 200
    /\ r.resp.ctype = "video/webm"
    /\ r.resp.xcolor = "0x0BB600"
    /\ r.resp.body.bytes > 0

\* the method and path combinations the worker's 404 lists as endpoints;
\* {job_id} is whatever follows the prefix
IsEndpoint(method, path) ==
  \/ method = "POST" /\ path = UploadPath
  \/ method = "GET" /\ StartsWith(path, StatusPrefix)
  \/ method = "GET" /\ StartsWith(path, DownloadPrefix)

C8_StatusTransitions ==
  [][\A s \in Slots :
       /\ Terminal(jobs[s]) => jobs'[s].status \in {jobs[s].status, "absent"}
       /\ (Terminal(jobs'[s]) /\ jobs'[s].status # jobs[s].status)
            => jobs[s].status = "processing"
       /\ (jobs'[s].status = "processing" /\ jobs[s].status # "processing")
            => /\ jobs[s].status = "absent"
               /\ \E r \in Reqs : \E r2 \in BagToSet(reqs') :
                    /\ r.route = "upload" /\ r.cstate = "pending"
                    /\ r2.cstate = "answered"
                    /\ s = Slot(r.inst.named, r.xJobId)
                    /\ Became(r, r2)]_vars

\* C8 witness: a status poll made after the job became terminal has been
\* answered and the job is still in that status
C8_Witness ==
  \E r \in Reqs :
    /\ r.route = "status" /\ r.cstate = "answered"
    /\ Terminal(r.atIssue)
    /\ jobs[Slot(r.jobId, r.jobId)].status = r.atIssue.status

\* a status call the caller received a job snapshot from
Reported(r) ==
  /\ r.route = "status"
  /\ r.cstate = "answered"
  /\ ~r.timedOut
  /\ r.resp.status = 200

\* the progress part of C9: values in 0..100, not below any value received
\* before the call was made, not below the job's progress when the call was
\* made, and never above the progress the job has now
ProgressMonotone ==
  \A r \in Reqs :
    Reported(r) =>
      /\ r.resp.body.progress \in 0..100
      /\ r.resp.body.progress >= r.floor
      /\ r.atIssue.status # "absent" => r.resp.body.progress >= r.atIssue.progress
      /\ jobs[Slot(r.jobId, r.jobId)].status # "absent"
           => r.resp.body.progress <= jobs[Slot(r.jobId, r.jobId)].progress

C11_HealthyContainerTerminates ==
  /\ [](/\ Len(healthLog) <= hc.maxRetries
        /\ \A k \in 1..Len(healthLog) :
             /\ healthLog[k].attempt = k - 1
             /\ healthLog[k].ok => k = Len(healthLog)
        /\ hc.pc = "returned"
             <=> /\ Len(healthLog) > 0
                 /\ healthLog[Len(healthLog)].ok
        /\ hc.pc = "returned"
             => hc.container = healthLog[Len(healthLog)].container
        /\ hc.pc = "thrown"
             <=> /\ hc.maxRetries \in 0..MaxRetriesTried
                 /\ hc.pc # "idle"
                 /\ Len(healthLog) = hc.maxRetries
                 /\ \A k \in 1..Len(healthLog) : ~healthLog[k].ok
        /\ hc.pc = "thrown" => hc.error = NoHealthyContainer)
  /\ (hc.pc # "idle") ~> (hc.pc \in {"returned", "thrown"})

\* C11 witness: called with the default retry count, the function returned
\* the container of its third attempt after two attempts that were not ok
C11_Witness ==
  /\ hc.maxRetries = DefaultMaxRetries
  /\ hc.pc = "returned"
  /\ Len(healthLog) = DefaultMaxRetries
  /\ hc.container = healthLog[DefaultMaxRetries].container

\* C12: an attempt that failed (a thrown error, the 2 s timeout or a
\* response that is not ok) is followed by the 1 s backoff when another
\* attempt comes after it, and by no backoff when it was the last one.
C12_BackoffAfterEveryFailure ==
  [][(hc.pc = "attempt" /\ Len(healthLog') = Len(healthLog) + 1
      /\ ~healthLog'[Len(healthLog')].ok)
     => IF hc.attempt < hc.maxRetries - 1
        THEN hc'.pc = "backoff"
        ELSE hc'.pc = "thrown"]_vars

\* an error response built by the catch block of the branch
IsWorkerError(route, response) ==
  /\ response.ctype = "application/json"
  /\ response.body.bytes = 0
  /\ response.body.job_id = <<>>
  /\ IF route = "upload"
     THEN \/ response.status = 504
             /\ response.body.error = "Upload timeout - file too large"
          \/ response.status = 500 /\ response.body.error = "Upload failed"
     ELSE /\ response.status = 500
          /\ response.body.error = (IF route = "status"
                                     THEN "Failed to check status"
                                     ELSE "Failed to download video")

\* C13: every request gets a response and keeps it: an answered request
\* holds either the response the race resolved with or one error response
\* of the worker, never both; a settlement of container.fetch that comes
\* after the timer fired changes nothing of the answer; and every request
\* received is eventually answered.
C13_ExactlyOneResponse ==
  /\ [](\A r \in Reqs :
          /\ r.phase = "done" <=> r.resp # NoResponse
          /\ (r.phase = "done" /\ r.cstate # "none") =>
                IF r.cresp # NoResponse
                THEN /\ r.resp = r.cresp
                     /\ r.cstate = "answered"
                     /\ ~r.timedOut
                     /\ ~IsWorkerError(r.route, r.resp)
                ELSE /\ r.timedOut \/ r.cstate = "rejected"
                     /\ IsWorkerError(r.route, r.resp)
                     /\ r.timedOut => r.resp.body.details
                                        \in {TimeoutMessage(r.route),
                                             ErrorToString(TimeoutMessage(r.route))})
  /\ [][reqs' # reqs =>
          \A r \in Reqs :
            (r.phase = "done" /\ CopiesIn(r, reqs') < CopiesIn(r, reqs)) =>
              \E r2 \in BagToSet(reqs') :
                /\ CopiesIn(r2, reqs') > CopiesIn(r2, reqs)
                /\ r2.phase = "done"
                /\ r2.resp = r.resp]_vars
  /\ []<>(\A r \in Reqs : r.phase = "done")

\* C13 witness: a download timed out at the worker, container.fetch
\* rejected afterwards, and the caller still holds the timeout error
C13_Witness ==
  \E r \in Reqs :
    /\ r.route = "download"
    /\ r.timedOut
    /\ r.cstate = "rejected"
    /\ r.resp = DownloadErrorResponse(<<"Download", "timeout">>)

\* C14: an answered upload carries 504 'Upload timeout - file too large'
\* exactly when the worker's 25 s timer fired before the container answered,
\* and an upload whose container.fetch rejected first carries 500 'Upload
\* failed', whatever the message of the rejection.
C14_Upload504IffTimer ==
  \A r \in Reqs :
    (r.route = "upload" /\ r.phase = "done") =>
      /\ (/\ r.resp.status = 504
          /\ r.resp.body.error = "Upload timeout - file too large")
           <=> r.timedOut
      /\ (~r.timedOut /\ r.cstate = "rejected")
           => /\ r.resp.status = 500
              /\ r.resp.body.error = "Upload failed"

\* the caller can read job id from the response: it is the body's job_id or
\* a word of the body's details
KnownFrom(response, id) ==
  \/ response.body.job_id = id
  \/ \E i \in 1..Len(response.body.details) : <<response.body.details[i]>> = id

\* C15: the response to an upload the worker has answered makes the job id
\* known that the worker generated for it and forwarded to the container,
\* also when the answer is the worker's own timeout or failure error.
C15_JobIdReachesCaller ==
  \A r \in Reqs :
    (r.route = "upload" /\ r.phase = "done") => KnownFrom(r.resp, r.jobId)

\* the harm C15 rules out: a job runs in a container under an id that the
\* answer to its upload did not make known
C15_JobUnknownToCaller ==
  \E r \in Reqs :
    /\ r.route = "upload" /\ r.phase = "done"
    /\ ~KnownFrom(r.resp, r.jobId)
    /\ jobs[Slot(r.inst.named, r.xJobId)].status = "processing"

\* C16: the X-Job-Id header of the forwarded upload is exactly the id the
\* worker generated and selected the container by, whatever headers the
\* client sent; every other header, the method and the body are forwarded
\* unchanged.
C16_ForwardedJobIdIsGenerated ==
  cr.pc = "forwarded" =>
    /\ HeadersGet(cr.cloned.headers, "X-Job-Id") = cr.jobId
    /\ cr.container = getContainer(cr.jobId)
    /\ \A name \in ClientHeaderNames :
         Lower(name) # "x-job-id"
           => HeadersGet(cr.cloned.headers, name) = HeadersGet(cr.request.headers, name)
    /\ cr.cloned.method = cr.request.method
    /\ cr.cloned.body = cr.request.body

====
